---- MODULE Spec2Model ----
(***************************************************************************)
(* File-sharing core of the repository: quota ledger (userService.ts),     *)
(* file registry, sharing / access control and expiry sweep                *)
(* (fileService.ts).  Every exported async function is modelled as a       *)
(* sequence of steps, one per await on the document store or the blob      *)
(* store, so that concurrent calls interleave exactly at their awaits.     *)
(***************************************************************************)
EXTENDS Integers, FiniteSets, Sequences, TLC

\* ------------------------------------------------------------------ bounds
MaxFiles  == 2      \* uploads that reach the blob store in one behaviour
MaxSize   == 2      \* file.size ranges over 1..MaxSize
Quota     == 3      \* totalStorage of every profile (1 GiB in the code)
MaxTime   == 2      \* the clock runs over 0..MaxTime
MaxFaults == 1      \* failing store / network calls in one behaviour
MaxRecords == 1    \* records created in the sub-systems that follow one record
MaxLen    == 2      \* UTF-16 code units of a plaintext given to hashPassword

Users     == {"A", "B"}
Procs     == {"s1", "s2"}            \* concurrent caller sessions
Emails    == {"x@m"}
Passwords == {"", "a", "b"}          \* "" is the empty (falsy) string
FileIds   == 1..MaxFiles
Sizes     == 1..MaxSize

VARIABLES
  users,      \* collection 'users': uid -> [usedStorage, totalStorage]
  files,      \* collection 'files': doc id -> FileData (domain = existing docs)
  blobs,      \* blob store: the publicIds it holds
  nextId,     \* next fresh id handed out by the blob store / addDoc
  now,        \* wall clock (new Date())
  procs,      \* per session: the call in progress, its position and locals
  faults,     \* failed I/O calls so far
  verified,   \* history: file ids for which verifyFilePassword returned true
  scheduler,  \* the browser's cleanup scheduler: its interval and its runs
  fileList,   \* the FileList component: its props, its password prompt, and
              \* the download references it opened
  checker     \* one ExpirationChecker: its props, its timer, onExpired calls

\* the state kept in the browser
client == <<scheduler, fileList, checker>>

vars == <<users, files, blobs, nextId, now, procs, faults, verified,
          scheduler, fileList, checker>>

\* ------------------------------------------------------- optional values
\* An optional field is a set: {} when the field is absent, {v} when set.
Absent   == {}
Some(v)  == {v}
The(s)   == CHOOSE v \in s : TRUE

\* options.expiresIn: undefined, null or a number (hours)
Undefined == [kind |-> "undefined", n |-> 0]
Null      == [kind |-> "null", n |-> 0]
Num(n)    == [kind |-> "number", n |-> n]

\* JavaScript truthiness of options?.expiresIn and options?.password
TruthyNum(e) == e.kind = "number" /\ e.n # 0
TruthyStr(w) == w # Absent /\ The(w) # ""

\* SHA-256 hex digest of a string: a one-way digest, never the plaintext
hashPassword(password) == [sha256 |-> password]

\* ----------------------------------------------------------- proc records
\* what a call hands back: its outcome, the records it returns, a count, and
\* for a read the time at which it read
NoRet == [status |-> "none", files |-> <<>>, n |-> 0, at |-> 0]
Ret(status) == [NoRet EXCEPT !.status = status]
Count(n) == [NoRet EXCEPT !.status = "ok", !.n = n]
Records(status, fs) == [NoRet EXCEPT !.status = status, !.files = fs, !.at = now]

NoOptions == [expiresIn |-> Undefined, password |-> Absent]
NoUpdate  == [expiresAt |-> Undefined, password |-> Absent]

\* initializeCleanupScheduler has not been called: no interval, no run
NoScheduler == [intervalId |-> "none", startedAt |-> 0, runs |-> 0]

\* FileList before it is given files: the useState defaults of lines 28-30
NoList == [files |-> <<>>, isOwner |-> FALSE, user |-> "",
           passwordModalOpen |-> FALSE, fileToDownload |-> Absent,
           downloadPassword |-> "", opened |-> {}]

\* no ExpirationChecker is mounted
NoChecker == [timer |-> "none", expirationDate |-> 0, timeLeft |-> Absent,
              calls |-> 0]

Idle == [op |-> "idle", pc |-> "idle", uid |-> "", fid |-> 0, size |-> 0,
         options |-> NoOptions, email |-> "", newUsed |-> 0, matched |-> 0,
         updateData |-> NoUpdate, sub |-> [f \in {} |-> 0], ret |-> NoRet]

\* the call returned (or threw): only its result stays visible
Done(op, fid, ret) ==
  [Idle EXCEPT !.op = op, !.pc = "done", !.fid = fid, !.ret = ret]

IsIdle(p) == procs[p].pc = "idle"
At(p, op, pc) == procs[p].op = op /\ procs[p].pc = pc

Init ==
  /\ users = [u \in Users |-> [usedStorage |-> 0, totalStorage |-> Quota]]
  /\ files = [f \in {} |-> 0]
  /\ blobs = {}
  /\ nextId = 1
  /\ now = 0
  /\ procs = [p \in Procs |-> Idle]
  /\ faults = 0
  /\ verified = {}
  /\ scheduler = NoScheduler
  /\ fileList = NoList
  /\ checker = NoChecker

\* ------------------------------------------------------------------ clock
Tick ==
  /\ now < MaxTime
  /\ now' = now + 1
  /\ UNCHANGED <<users, files, blobs, nextId, procs, faults, verified, client>>

\* a session picks up the result of its call
Return(p) ==
  /\ procs[p].pc = "done"
  /\ procs' = [procs EXCEPT ![p] = Idle]
  /\ UNCHANGED <<users, files, blobs, nextId, now, faults, verified, client>>

\* ============================================================ quota ledger
\* the check with >= for >: a file that exactly fills the quota is refused
QuotaExceeded_OffByOne(profile, size) ==
  profile.usedStorage + size >= profile.totalStorage

\* the bytes of the uploads of the sessions in S that have passed the check
\* and not returned yet
RECURSIVE InFlight(_)
InFlight(S) ==
  IF S = {} THEN 0
  ELSE LET q == CHOOSE r \in S : TRUE IN
       (IF procs[q].op = "uploadFile" /\ procs[q].pc # "done" THEN procs[q].size ELSE 0)
         + InFlight(S \ {q})

\* a check that also counts the uploads in flight, as a reservation would
QuotaExceeded_CountsInFlight(profile, size) ==
  profile.usedStorage + InFlight(Procs) + size > profile.totalStorage

\* uploadFile line 105: the pre-upload quota check
QuotaExceeded(profile, size) ==
  profile.usedStorage + size > profile.totalStorage

\* updateUserStorage lines 65-67
NewUsedStorage(profile, fileSize, isAddition) ==
  IF isAddition THEN profile.usedStorage + fileSize
                ELSE profile.usedStorage - fileSize

\* updateUserStorage without its guard
LedgerRejects_Never(profile, newUsedStorage) == FALSE

\* updateUserStorage lines 69-71
LedgerRejects(profile, newUsedStorage) == newUsedStorage > profile.totalStorage

\* ================================================================== upload
\* the record uploadFile builds (lines 123-156)
NewFileData(userId, size, publicId, options) ==
  [userId |-> userId, size |-> size,
   publicId |-> publicId, secureUrl |-> publicId,   \* the blob's reference
   isPublic |-> FALSE, uploadedAt |-> now, sharedWith |-> {},
   isPasswordProtected |->
     IF TruthyStr(options.password) THEN Some(TRUE) ELSE Absent,
   password |->
     IF TruthyStr(options.password)
       THEN Some(hashPassword(The(options.password))) ELSE Absent,
   expiresAt |->
     IF TruthyNum(options.expiresIn)
       THEN Some(now + options.expiresIn.n) ELSE Absent]

\* ids are left for one more upload under the cap, counting those already on their way to
\* the blob store (keeps the id counter within its bound without ever
\* blocking an upload that has started)
Room(cap) ==
  nextId + Cardinality({p \in Procs : procs[p].pc = "cloudinary"}) <= cap

\* an upload that reserves the bytes when it checks the quota and never gives
\* them back
UploadFile_ReservesFirst(p, userId, size, options) ==
  /\ IsIdle(p)
  /\ procs' = [procs EXCEPT ![p] =
       IF QuotaExceeded(users[userId], size)
         THEN Done("uploadFile", 0, Ret("Storage quota exceeded"))
         ELSE [Idle EXCEPT !.op = "uploadFile", !.pc = "cloudinary",
                           !.uid = userId, !.size = size, !.options = options]]
  /\ users' = IF QuotaExceeded(users[userId], size) THEN users
              ELSE [users EXCEPT ![userId].usedStorage = @ + size]
  /\ UNCHANGED <<files, blobs, nextId, now, faults, verified, client>>

\* uploadFile lines 98-107: read the profile, check the quota
UploadFile(p, userId, size, options) ==
  /\ IsIdle(p)
  /\ procs' = [procs EXCEPT ![p] =
       IF QuotaExceeded(users[userId], size)
         THEN Done("uploadFile", 0, Ret("Storage quota exceeded"))
         ELSE [Idle EXCEPT !.op = "uploadFile", !.pc = "cloudinary",
                           !.uid = userId, !.size = size, !.options = options]]
  /\ UNCHANGED <<users, files, blobs, nextId, now, faults, verified, client>>

\* uploadToCloudinary (lines 59-88), called at line 116: the blob is stored
UploadToCloudinary(p) ==
  /\ At(p, "uploadFile", "cloudinary")
  /\ nextId <= MaxFiles
  /\ blobs' = blobs \cup {nextId}
  /\ nextId' = nextId + 1
  /\ procs' = [procs EXCEPT ![p].pc = "addDoc", ![p].fid = nextId]
  /\ UNCHANGED <<users, files, now, faults, verified, client>>

\* line 159: addDoc persists the record under a fresh document id
AddDoc(p) ==
  /\ At(p, "uploadFile", "addDoc")
  /\ LET pr == procs[p] IN
     files' = (pr.fid :> NewFileData(pr.uid, pr.size, pr.fid, pr.options)) @@ files
  /\ procs' = [procs EXCEPT ![p].pc = "storageRead"]
  /\ UNCHANGED <<users, blobs, nextId, now, faults, verified, client>>

\* line 162 -> updateUserStorage lines 60-71: read the profile, compute, check
UploadStorageRead(p) ==
  /\ At(p, "uploadFile", "storageRead")
  /\ LET pr == procs[p]
         nu == NewUsedStorage(users[pr.uid], pr.size, TRUE) IN
     procs' = [procs EXCEPT ![p] =
       IF LedgerRejects(users[pr.uid], nu)
         THEN Done("uploadFile", pr.fid, Ret("Storage quota exceeded"))
         ELSE [pr EXCEPT !.pc = "storageWrite", !.newUsed = nu]]
  /\ UNCHANGED <<users, files, blobs, nextId, now, faults, verified, client>>

\* updateUserStorage line 73: write the new usage; uploadFile returns (line 164)
UploadStorageWrite(p) ==
  /\ At(p, "uploadFile", "storageWrite")
  /\ LET pr == procs[p] IN
     /\ users' = [users EXCEPT ![pr.uid].usedStorage = pr.newUsed]
     /\ procs' = [procs EXCEPT ![p] = Done("uploadFile", pr.fid, Ret("ok"))]
  /\ UNCHANGED <<files, blobs, nextId, now, faults, verified, client>>

\* a blob-store or document-store call of uploadFile fails: the error
\* propagates through the catch at lines 165-168
UploadFails(p) ==
  /\ procs[p].op = "uploadFile"
  /\ procs[p].pc \in {"cloudinary", "addDoc", "storageRead", "storageWrite"}
  /\ faults < MaxFaults
  /\ faults' = faults + 1
  /\ LET pr == procs[p] IN
     procs' = [procs EXCEPT ![p] = Done("uploadFile", pr.fid, Ret("io error"))]
  /\ UNCHANGED <<users, files, blobs, nextId, now, verified, client>>

\* ================================================================== delete
\* One running deleteFile call.  A session's own delete and every delete an
\* expiry sweep fans out (Promise.all, lines 556-570) is such a task; they are
\* kept in procs[p].sub, keyed by file id.
NewTask(userId) ==
  [pc |-> "getDoc", userId |-> userId, size |-> 0, publicId |-> 0,
   newUsed |-> 0, err |-> ""]
Threw(t, msg) == [NewTask(t.userId) EXCEPT !.pc = "err", !.err = msg]
Settled(t) == t.pc \in {"ok", "err"}

\* the ownership comparison left out
IsOwner_Anyone(fileData, userId) == TRUE

\* deleteFile line 288, shareFile line 361, generateShareableLink line 405:
\* only the owner passes
IsOwner(fileData, userId) == fileData.userId = userId

\* deleteFile lines 280-290: read the record, check existence and ownership
DelGetDoc(t, f) ==
  IF f \notin DOMAIN files THEN Threw(t, "File not found")
  ELSE IF ~IsOwner(files[f], t.userId) THEN Threw(t, "Unauthorized")
  ELSE [t EXCEPT !.pc = "destroy", !.size = files[f].size,
                 !.publicId = files[f].publicId]

\* a sweep without the try/catch around each delete: the first delete that
\* throws rejects Promise.all and the sweep rethrows
Settle_AbortsOnError(pr) ==
  IF pr.op = "deleteFile"
    THEN IF \E f \in DOMAIN pr.sub : ~Settled(pr.sub[f]) THEN pr
         ELSE LET t == pr.sub[pr.fid] IN
              Done("deleteFile", pr.fid, Ret(IF t.pc = "ok" THEN "ok" ELSE t.err))
  ELSE IF \E f \in DOMAIN pr.sub : pr.sub[f].pc = "err"
    THEN Done("cleanupExpiredFiles", 0, Ret("io error"))
  ELSE IF \E f \in DOMAIN pr.sub : ~Settled(pr.sub[f]) THEN pr
  ELSE Done("cleanupExpiredFiles", 0, Count(pr.matched))

\* what the session sees once its tasks settle: deleteFile returns
\* {success: true} or rethrows (lines 339-343); cleanupExpiredFiles returns
\* querySnapshot.size (line 572) once Promise.all resolves (line 570)
Settle(pr) ==
  IF \E f \in DOMAIN pr.sub : ~Settled(pr.sub[f]) THEN pr
  ELSE IF pr.op = "deleteFile"
    THEN LET t == pr.sub[pr.fid] IN
         Done("deleteFile", pr.fid, Ret(IF t.pc = "ok" THEN "ok" ELSE t.err))
    ELSE Done("cleanupExpiredFiles", 0, Count(pr.matched))

SetTask(p, f, t) == Settle([procs[p] EXCEPT !.sub[f] = t])
Task(p, f) == procs[p].sub[f]
TaskAt(p, f, pc) ==
  /\ procs[p].pc = "deleting"
  /\ f \in DOMAIN procs[p].sub
  /\ procs[p].sub[f].pc = pc

\* deleteFile(fileId, userId) called by a session
DeleteFile(p, fileId, userId) ==
  /\ IsIdle(p)
  /\ procs' = [procs EXCEPT ![p] =
       Settle([Idle EXCEPT !.op = "deleteFile", !.pc = "deleting",
                           !.uid = userId, !.fid = fileId,
                           !.sub = [g \in {fileId} |-> DelGetDoc(NewTask(userId), g)]])]
  /\ UNCHANGED <<users, files, blobs, nextId, now, faults, verified, client>>

\* the getDoc of a delete started by a sweep (lines 562, 280-290)
SweepDelGetDoc(p, f) ==
  /\ TaskAt(p, f, "getDoc")
  /\ procs' = [procs EXCEPT ![p] = SetTask(p, f, DelGetDoc(Task(p, f), f))]
  /\ UNCHANGED <<users, files, blobs, nextId, now, faults, verified, client>>

\* lines 309-331: the destroy request; the blob store removes the blob, or
\* answers with an error that is only logged.  The updateDoc on the profile
\* that follows (files: arrayRemove(fileId), lines 327-331) is part of this
\* step: uploadFile never adds to that array, so it changes nothing kept here.
DelDestroy(p, f, removed) ==
  /\ TaskAt(p, f, "destroy")
  /\ IF removed
       THEN blobs' = blobs \ {Task(p, f).publicId} /\ faults' = faults
       ELSE /\ faults < MaxFaults
            /\ faults' = faults + 1
            /\ blobs' = blobs
  /\ procs' = [procs EXCEPT ![p] = SetTask(p, f, [Task(p, f) EXCEPT !.pc = "storageRead"])]
  /\ UNCHANGED <<users, files, nextId, now, verified, client>>

\* line 334 -> updateUserStorage lines 60-71 with isAddition = false
DelStorageRead(p, f) ==
  /\ TaskAt(p, f, "storageRead")
  /\ LET t  == Task(p, f)
         nu == NewUsedStorage(users[t.userId], t.size, FALSE) IN
     procs' = [procs EXCEPT ![p] = SetTask(p, f,
       IF LedgerRejects(users[t.userId], nu)
         THEN Threw(t, "Storage quota exceeded")
         ELSE [t EXCEPT !.pc = "storageWrite", !.newUsed = nu])]
  /\ UNCHANGED <<users, files, blobs, nextId, now, faults, verified, client>>

\* updateUserStorage line 73
DelStorageWrite(p, f) ==
  /\ TaskAt(p, f, "storageWrite")
  /\ users' = [users EXCEPT ![Task(p, f).userId].usedStorage = Task(p, f).newUsed]
  /\ procs' = [procs EXCEPT ![p] = SetTask(p, f, [Task(p, f) EXCEPT !.pc = "deleteDoc"])]
  /\ UNCHANGED <<files, blobs, nextId, now, faults, verified, client>>

\* line 337: deleteDoc removes the record (a no-op when it is already gone)
DelDeleteDoc(p, f) ==
  /\ TaskAt(p, f, "deleteDoc")
  /\ files' = [g \in DOMAIN files \ {f} |-> files[g]]
  /\ procs' = [procs EXCEPT ![p] = SetTask(p, f, [Task(p, f) EXCEPT !.pc = "ok"])]
  /\ UNCHANGED <<users, blobs, nextId, now, faults, verified, client>>

\* the fetch or a document-store call of deleteFile throws: caught at line 340
DeleteFails(p, f) ==
  /\ procs[p].pc = "deleting"
  /\ f \in DOMAIN procs[p].sub
  /\ ~Settled(Task(p, f))
  /\ faults < MaxFaults
  /\ faults' = faults + 1
  /\ procs' = [procs EXCEPT ![p] = SetTask(p, f, Threw(Task(p, f), "io error"))]
  /\ UNCHANGED <<users, files, blobs, nextId, now, verified, client>>

\* ================================================================= sharing
\* shareFile lines 352-363 / generateShareableLink lines 395-407
ReadForShare(f, userId) ==
  IF f \notin DOMAIN files THEN "File not found"
  ELSE IF ~IsOwner(files[f], userId)
    THEN "You do not have permission to share this file"
  ELSE "ok"

\* shareFile(fileId, userId, email): read and check
ShareFile(p, fileId, userId, email) ==
  /\ IsIdle(p)
  /\ LET r == ReadForShare(fileId, userId) IN
     procs' = [procs EXCEPT ![p] =
       IF r # "ok" THEN Done("shareFile", fileId, Ret(r))
       ELSE [Idle EXCEPT !.op = "shareFile", !.pc = "updateDoc", !.uid = userId,
                         !.fid = fileId, !.email = email]]
  /\ UNCHANGED <<users, files, blobs, nextId, now, faults, verified, client>>

\* a share that writes the record back as a private one
ArrayUnion_ResetsVisibility(fileData, email) ==
  [fileData EXCEPT !.sharedWith = @ \cup {email}, !.isPublic = FALSE]

\* a share that takes the email out again when it is already there
ArrayUnion_Toggles(fileData, email) ==
  [fileData EXCEPT !.sharedWith =
     IF email \in @ THEN @ \ {email} ELSE @ \cup {email}]

\* lines 366-368: sharedWith: arrayUnion(email)
ArrayUnion(fileData, email) ==
  [fileData EXCEPT !.sharedWith = @ \cup {email}]

\* updateDoc rejects a document that no longer exists
ShareUpdateDoc(p) ==
  /\ At(p, "shareFile", "updateDoc")
  /\ LET pr == procs[p] IN
     IF pr.fid \in DOMAIN files
       THEN /\ files' = [files EXCEPT ![pr.fid] = ArrayUnion(@, pr.email)]
            /\ procs' = [procs EXCEPT ![p] = Done("shareFile", pr.fid, Ret("ok"))]
       ELSE /\ files' = files
            /\ procs' = [procs EXCEPT ![p] = Done("shareFile", pr.fid, Ret("not-found"))]
  /\ UNCHANGED <<users, blobs, nextId, now, faults, verified, client>>

\* the expiration computed without the hours asked for
UpdateData_NoHours(options) ==
  [expiresAt |->
     IF TruthyNum(options.expiresIn) THEN Num(now)
     ELSE IF options.expiresIn.kind = "null" THEN Null
     ELSE Undefined,
   password |->
     IF TruthyStr(options.password)
       THEN Some(hashPassword(The(options.password))) ELSE Absent]

\* an omitted expiresIn taken for a request to clear the expiration
UpdateData_ClearsWhenOmitted(options) ==
  [expiresAt |->
     IF TruthyNum(options.expiresIn) THEN Num(now + options.expiresIn.n)
     ELSE Null,
   password |->
     IF TruthyStr(options.password)
       THEN Some(hashPassword(The(options.password))) ELSE Absent]

\* generateShareableLink lines 409-428: the partial document it will write
UpdateData(options) ==
  [expiresAt |->
     IF TruthyNum(options.expiresIn) THEN Num(now + options.expiresIn.n)
     ELSE IF options.expiresIn.kind = "null" THEN Null      \* deleteField()
     ELSE Undefined,                                         \* key not present
   password |->
     IF TruthyStr(options.password)
       THEN Some(hashPassword(The(options.password))) ELSE Absent]

\* generateShareableLink(fileId, userId, options): read, check, build the update
GenerateShareableLink(p, fileId, userId, options) ==
  /\ IsIdle(p)
  /\ LET r == ReadForShare(fileId, userId) IN
     procs' = [procs EXCEPT ![p] =
       IF r # "ok" THEN Done("generateShareableLink", fileId, Ret(r))
       ELSE [Idle EXCEPT !.op = "generateShareableLink", !.pc = "updateDoc",
                         !.uid = userId, !.fid = fileId,
                         !.updateData = UpdateData(options)]]
  /\ UNCHANGED <<users, files, blobs, nextId, now, faults, verified, client>>

\* the update with line 426 left out: the hash is stored, the flag is not
ApplyUpdate_NoFlag(fileData, updateData) ==
  [fileData EXCEPT
     !.isPublic = TRUE,
     !.expiresAt = IF updateData.expiresAt.kind = "number" THEN Some(updateData.expiresAt.n)
                   ELSE IF updateData.expiresAt.kind = "null" THEN Absent
                   ELSE @,
     !.password = IF updateData.password # Absent THEN updateData.password ELSE @]

\* deleteField() written as a zero (epoch) date instead of removing the field
ApplyUpdate_Epoch(fileData, updateData) ==
  [fileData EXCEPT
     !.isPublic = TRUE,
     !.expiresAt = IF updateData.expiresAt.kind = "number" THEN Some(updateData.expiresAt.n)
                   ELSE IF updateData.expiresAt.kind = "null" THEN Some(0)
                   ELSE @,
     !.isPasswordProtected = IF updateData.password # Absent THEN Some(TRUE) ELSE @,
     !.password = IF updateData.password # Absent THEN updateData.password ELSE @]

\* line 431: updateDoc(fileRef, updateData) merges the partial document
ApplyUpdate(fileData, updateData) ==
  [fileData EXCEPT
     !.isPublic = TRUE,
     !.expiresAt = IF updateData.expiresAt.kind = "number" THEN Some(updateData.expiresAt.n)
                   ELSE IF updateData.expiresAt.kind = "null" THEN Absent
                   ELSE @,
     !.isPasswordProtected = IF updateData.password # Absent THEN Some(TRUE) ELSE @,
     !.password = IF updateData.password # Absent THEN updateData.password ELSE @]

\* the write done as a merging set: a record that is gone is created again
\* from the keys of the update
GenUpdateDoc_Upserts(p) ==
  /\ At(p, "generateShareableLink", "updateDoc")
  /\ LET pr == procs[p] IN
     /\ files' = IF pr.fid \in DOMAIN files
                   THEN [files EXCEPT ![pr.fid] = ApplyUpdate(@, pr.updateData)]
                   ELSE (pr.fid :> ApplyUpdate(NewFileData("", 0, 0, NoOptions),
                                               pr.updateData)) @@ files
     /\ procs' = [procs EXCEPT ![p] =
          Done("generateShareableLink", pr.fid, Ret("ok"))]
  /\ UNCHANGED <<users, blobs, nextId, now, faults, verified, client>>

\* line 431: updateDoc rejects a document that no longer exists
GenUpdateDoc(p) ==
  /\ At(p, "generateShareableLink", "updateDoc")
  /\ LET pr == procs[p] IN
     IF pr.fid \in DOMAIN files
       THEN /\ files' = [files EXCEPT ![pr.fid] = ApplyUpdate(@, pr.updateData)]
            /\ procs' = [procs EXCEPT ![p] =
                 Done("generateShareableLink", pr.fid, Ret("ok"))]
       ELSE /\ files' = files
            /\ procs' = [procs EXCEPT ![p] =
                 Done("generateShareableLink", pr.fid, Ret("not-found"))]
  /\ UNCHANGED <<users, blobs, nextId, now, faults, verified, client>>

\* the updateDoc of shareFile / generateShareableLink fails
UpdateFails(p) ==
  /\ procs[p].op \in {"shareFile", "generateShareableLink"}
  /\ procs[p].pc = "updateDoc"
  /\ faults < MaxFaults
  /\ faults' = faults + 1
  /\ procs' = [procs EXCEPT ![p] = Done(procs[p].op, procs[p].fid, Ret("io error"))]
  /\ UNCHANGED <<users, files, blobs, nextId, now, verified, client>>

\* ==================================================================== reads
Doc(f) == [id |-> f, data |-> files[f]]

\* a missing record taken for an unprotected one
PasswordOk_MissingIsOpen(f, password) ==
  IF f \notin DOMAIN files THEN TRUE
  ELSE IF files[f].isPasswordProtected # Some(TRUE) THEN TRUE
  ELSE files[f].password = Some(hashPassword(password))

\* verifyFilePassword lines 447-460 (a missing record throws and the catch at
\* lines 461-464 turns that into false)
PasswordOk(f, password) ==
  IF f \notin DOMAIN files THEN FALSE
  ELSE IF files[f].isPasswordProtected # Some(TRUE) THEN TRUE
  ELSE files[f].password = Some(hashPassword(password))

VerifyFilePassword(p, fileId, password) ==
  /\ IsIdle(p)
  /\ LET ok == PasswordOk(fileId, password) IN
     /\ procs' = [procs EXCEPT ![p] =
          Done("verifyFilePassword", fileId, Ret(IF ok THEN "true" ELSE "false"))]
     /\ verified' = IF ok THEN verified \cup {fileId} ELSE verified
  /\ UNCHANGED <<users, files, blobs, nextId, now, faults, client>>

\* the getDoc of verifyFilePassword (line 445) fails: the catch at lines
\* 461-464 logs the error and returns false
VerifyReadFails(p, fileId, password) ==
  /\ IsIdle(p)
  /\ faults < MaxFaults
  /\ faults' = faults + 1
  /\ procs' = [procs EXCEPT ![p] = Done("verifyFilePassword", fileId, Ret("false"))]
  /\ UNCHANGED <<users, files, blobs, nextId, now, verified, client>>

\* getPublicFile line 509-517: the expiry test of the public gate
GateExpired(fileData, t) ==
  fileData.expiresAt # Absent /\ t > The(fileData.expiresAt)

\* getPublicFile lines 494-534
PublicFile(f) ==
  IF f \notin DOMAIN files THEN <<>>
  ELSE IF ~files[f].isPublic THEN <<>>
  ELSE IF GateExpired(files[f], now) THEN <<>>
  ELSE <<Doc(f)>>

GetPublicFile(p, fileId) ==
  /\ IsIdle(p)
  /\ LET r == PublicFile(fileId) IN
     procs' = [procs EXCEPT ![p] =
       Done("getPublicFile", fileId, Records(IF r = <<>> THEN "null" ELSE "ok", r))]
  /\ UNCHANGED <<users, files, blobs, nextId, now, faults, verified, client>>

\* getUserFiles line 223: the filter that keeps a record in the owner's list
KeptInList(fileData, t) ==
  fileData.expiresAt = Absent \/ The(fileData.expiresAt) > t

\* lines 229-233: sort by uploadedAt, newest first (ties keep the query order,
\* which is by document id)
Newest(S) ==
  CHOOSE f \in S : \A g \in S :
    \/ files[f].uploadedAt > files[g].uploadedAt
    \/ (files[f].uploadedAt = files[g].uploadedAt /\ f <= g)

RECURSIVE NewestFirst(_)
NewestFirst(S) ==
  IF S = {} THEN <<>>
  ELSE <<Doc(Newest(S))>> \o NewestFirst(S \ {Newest(S)})

\* getUserFiles lines 174-233
UserFiles(userId) ==
  NewestFirst({f \in DOMAIN files :
                 files[f].userId = userId /\ KeptInList(files[f], now)})

GetUserFiles(p, userId) ==
  /\ IsIdle(p)
  /\ procs' = [procs EXCEPT ![p] =
       Done("getUserFiles", 0, Records("ok", UserFiles(userId)))]
  /\ UNCHANGED <<users, files, blobs, nextId, now, faults, verified, client>>

RECURSIVE InIdOrder(_)
InIdOrder(S) ==
  IF S = {} THEN <<>>
  ELSE LET f == CHOOSE g \in S : \A h \in S : g <= h IN
       <<Doc(f)>> \o InIdOrder(S \ {f})

\* getSharedFiles lines 469-485: every record whose sharedWith holds the email
SharedFiles(email) ==
  InIdOrder({f \in DOMAIN files : email \in files[f].sharedWith})

GetSharedFiles(p, email) ==
  /\ IsIdle(p)
  /\ procs' = [procs EXCEPT ![p] =
       Done("getSharedFiles", 0, Records("ok", SharedFiles(email)))]
  /\ UNCHANGED <<users, files, blobs, nextId, now, faults, verified, client>>

\* ==================================================================== sweep
\* a sweep whose query asks for records that expire later
ExpiredQuery_NotYet(fileData, t) ==
  /\ fileData.isPublic
  /\ fileData.expiresAt # Absent
  /\ The(fileData.expiresAt) > t

\* the query without its isPublic condition
ExpiredQuery_AnyVisibility(fileData, t) ==
  /\ fileData.expiresAt # Absent
  /\ The(fileData.expiresAt) < t

\* cleanupExpiredFiles lines 547-551: where expiresAt < now and isPublic == true
ExpiredQuery(fileData, t) ==
  /\ fileData.isPublic
  /\ fileData.expiresAt # Absent
  /\ The(fileData.expiresAt) < t

\* cleanupExpiredFiles lines 544-568: run the query and start one deleteFile
\* per matched record, with the record's own userId as caller
ExpiredSweep ==
  LET hit == {f \in DOMAIN files : ExpiredQuery(files[f], now)} IN
  Settle([Idle EXCEPT !.op = "cleanupExpiredFiles", !.pc = "deleting",
                      !.matched = Cardinality(hit),
                      !.sub = [f \in hit |-> NewTask(files[f].userId)]])

CleanupExpiredFiles(p) ==
  /\ IsIdle(p)
  /\ procs' = [procs EXCEPT ![p] = ExpiredSweep]
  /\ UNCHANGED <<users, files, blobs, nextId, now, faults, verified, client>>

\* ======================================================= cleanup scheduler
\* initializeCleanupScheduler and runCleanup (AuthContext.tsx lines 253-278),
\* used by the CleanupScheduler component (ExpirationChecker.tsx lines 65-78).
\* The clock counts intervals: CLEANUP_INTERVAL (line 258) is one unit of now.
Interval == 1

\* setInterval(runCleanup, 0): the callback is due at once, again and again
Due_AtOnce(s, t) == TRUE

\* setInterval(runCleanup, CLEANUP_INTERVAL), line 264: the callback is due
\* once per interval after the call; s.runs counts the sweep of line 261 too
Due(s, t) == t >= s.startedAt + s.runs * Interval

\* runCleanup lines 270-278 in the free session p: it starts one sweep; when
\* the query of the sweep fails, cleanupExpiredFiles rethrows (fileService.ts
\* lines 573-576) and the catch of lines 275-277 logs the error
RunCleanup(p, ok) ==
  /\ IsIdle(p)
  /\ IF ok
       THEN /\ procs' = [procs EXCEPT ![p] = ExpiredSweep]
            /\ faults' = faults
       ELSE /\ faults < MaxFaults
            /\ faults' = faults + 1
            /\ procs' = [procs EXCEPT ![p] =
                 Done("cleanupExpiredFiles", 0, Ret("error"))]

\* lines 256-268, called once by the effect of CleanupScheduler (line 68):
\* one sweep at once, then the interval is set
InitializeCleanupScheduler(p, ok) ==
  /\ scheduler.intervalId = "none"
  /\ RunCleanup(p, ok)
  /\ scheduler' = [intervalId |-> "set", startedAt |-> now, runs |-> 1]
  /\ UNCHANGED <<users, files, blobs, nextId, now, verified, fileList, checker>>

\* the interval set at line 264 fires
IntervalFires(p, ok) ==
  /\ scheduler.intervalId = "set"
  /\ Due(scheduler, now)
  /\ RunCleanup(p, ok)
  /\ scheduler' = [scheduler EXCEPT !.runs = @ + 1]
  /\ UNCHANGED <<users, files, blobs, nextId, now, verified, fileList, checker>>

\* the function returned at line 267, called when CleanupScheduler unmounts
\* (ExpirationChecker.tsx lines 71-73): clearInterval(intervalId)
StopScheduler ==
  /\ scheduler.intervalId = "set"
  /\ scheduler' = [scheduler EXCEPT !.intervalId = "cleared"]
  /\ UNCHANGED <<users, files, blobs, nextId, now, procs, faults, verified,
                 fileList, checker>>

\* the clock moves on; a set interval fires before a further interval passes
SchedulerTick ==
  /\ scheduler.intervalId = "set" => ~Due(scheduler, now)
  /\ Tick

\* ================================================================ file list
\* FileList.tsx. Its files prop is a list a page got from getUserFiles (the
\* owner's page, isOwner true; refreshFiles lines 34-47) or from
\* getSharedFiles (the page of the files shared with the viewer, isOwner
\* false). One browser: a page shown to another viewer starts from the
\* component's initial state, and no verification is pending then.
DownloadPasswords == Passwords \cup {" "}

\* String.prototype.trim on the passwords above (line 184)
Trim(w) == IF w = " " THEN "" ELSE w

ShowFiles(userId, isOwner, list) ==
  /\ \A p \in Procs : procs[p].op # "verifyFilePassword"
  /\ fileList' =
       IF fileList.user = userId /\ fileList.isOwner = isOwner
         THEN [fileList EXCEPT !.files = list]
         ELSE [NoList EXCEPT !.files = list, !.isOwner = isOwner,
                             !.user = userId, !.opened = fileList.opened]
  /\ fileList' # fileList
  /\ UNCHANGED <<users, files, blobs, nextId, now, procs, faults, verified,
                 scheduler, checker>>

ShowUserFiles(userId) == ShowFiles(userId, TRUE, UserFiles(userId))

ShowSharedFiles(userId, email) == ShowFiles(userId, FALSE, SharedFiles(email))

\* line 169: the list's copy of the record says it is protected, and the
\* viewer is not on the owner's page or is not the record's owner
NeedsPassword(file) ==
  /\ file.data.isPasswordProtected = Some(TRUE)
  /\ (~fileList.isOwner \/ file.data.userId # fileList.user)

\* window.open(file.secureUrl, '_blank') for the current viewer (lines 176, 198)
Open(file) == fileList.opened \cup {<<fileList.user, file.id>>}

\* handleDownloadFile lines 167-179, for the i-th file of the list
HandleDownloadFile(i) ==
  /\ i \in 1..Len(fileList.files)
  /\ LET file == fileList.files[i] IN
     fileList' =
       IF NeedsPassword(file)
         THEN [fileList EXCEPT !.fileToDownload = Some(file),
                               !.passwordModalOpen = TRUE,
                               !.downloadPassword = ""]
         ELSE [fileList EXCEPT !.opened = Open(file)]
  /\ fileList' # fileList
  /\ UNCHANGED <<users, files, blobs, nextId, now, procs, faults, verified,
                 scheduler, checker>>

\* the password input of the prompt (line 400)
SetDownloadPassword(w) ==
  /\ fileList.passwordModalOpen
  /\ w # fileList.downloadPassword
  /\ fileList' = [fileList EXCEPT !.downloadPassword = w]
  /\ UNCHANGED <<users, files, blobs, nextId, now, procs, faults, verified,
                 scheduler, checker>>

\* handleVerifyDownloadPassword lines 181-193: the prompt is submitted; with
\* no file or a blank password it returns at line 186, else it calls
\* verifyFilePassword with the prompt's file and password
CanVerify ==
  /\ fileList.passwordModalOpen
  /\ fileList.fileToDownload # Absent
  /\ Trim(fileList.downloadPassword) # ""

HandleVerifyDownloadPassword(p) ==
  /\ CanVerify
  /\ VerifyFilePassword(p, The(fileList.fileToDownload).id,
                           fileList.downloadPassword)

\* the same, and the read of verifyFilePassword fails
VerifyDownloadFails(p) ==
  /\ CanVerify
  /\ VerifyReadFails(p, The(fileList.fileToDownload).id,
                        fileList.downloadPassword)

\* line 195: if (isValid)
IsValid(ret) == ret.status = "true"

\* lines 195-208: verifyFilePassword returned; the file is the one the
\* handler was called with
VerifyDownloadDone(p) ==
  /\ At(p, "verifyFilePassword", "done")
  /\ fileList' =
       IF IsValid(procs[p].ret)
         THEN [fileList EXCEPT !.passwordModalOpen = FALSE,
                               !.opened = Open([id |-> procs[p].fid])]
         ELSE fileList
  /\ procs' = [procs EXCEPT ![p] = Idle]
  /\ UNCHANGED <<users, files, blobs, nextId, now, faults, verified,
                 scheduler, checker>>

\* ======================================================= expiration checker
\* ExpirationChecker.tsx lines 10-47, rendered by FileList (lines 241-246)
\* for a list item that has an expiresAt. checker.calls counts the calls of
\* the onExpired prop.
\* calculateTimeLeft lines 15-19: the expiration is reached at time t
Reached(expirationDate, t) == expirationDate - t <= 0

\* calculateTimeLeft lines 19-30: null once reached, else the time left
TimeLeft(expirationDate, t) ==
  IF Reached(expirationDate, t) THEN Absent ELSE Some(expirationDate - t)

\* the effect runs for the i-th file of the list (lines 13-47): the first
\* calculation (line 34) calls onExpired when the expiration is reached
\* (line 21), and the timer is set in either case (line 37)
MountChecker(i) ==
  /\ checker.timer = "none"
  /\ i \in 1..Len(fileList.files)
  /\ fileList.files[i].data.expiresAt # Absent
  /\ LET d == The(fileList.files[i].data.expiresAt) IN
     checker' = [timer |-> "set", expirationDate |-> d,
                 timeLeft |-> TimeLeft(d, now),
                 calls |-> IF Reached(d, now) THEN 1 ELSE 0]
  /\ UNCHANGED <<users, files, blobs, nextId, now, procs, faults, verified,
                 scheduler, fileList>>

\* a list with an expiring file is shown and the effect of its checker has
\* not run yet: React runs it in the commit that renders the list
EffectPending ==
  /\ checker.timer = "none"
  /\ \E i \in 1..Len(fileList.files) : fileList.files[i].data.expiresAt # Absent

\* the timer fires (lines 37-44): the calculation runs again, calls
\* onExpired when the expiration is reached, and then clears the timer
TimerFires ==
  /\ checker.timer = "set"
  /\ LET d == checker.expirationDate IN
     checker' = [checker EXCEPT
       !.timeLeft = TimeLeft(d, now),
       !.calls = IF Reached(d, now) THEN @ + 1 ELSE @,
       !.timer = IF Reached(d, now) THEN "cleared" ELSE @]
  /\ checker' # checker
  /\ UNCHANGED <<users, files, blobs, nextId, now, procs, faults, verified,
                 scheduler, fileList>>

\* the cleanup of the effect (line 46) when the component unmounts
UnmountChecker ==
  /\ checker.timer \in {"set", "cleared"}
  /\ checker' = [checker EXCEPT !.timer = "unmounted"]
  /\ UNCHANGED <<users, files, blobs, nextId, now, procs, faults, verified,
                 scheduler, fileList>>

\* ============================================================ batch upload
\* FileUpload.handleUpload (AuthContext.tsx lines 310-412) with two selected
\* files: selectedFiles.map starts one uploadFile per file, each in its own
\* session, all for the signed-in user with the same options (lines 332-333).
\* Each call reads the profile before any of them writes.
HandleUpload(userId, sizes, options) ==
  /\ \A p \in Procs : IsIdle(p)
  /\ nextId + Cardinality(Procs) - 1 <= MaxFiles
  /\ procs' = [p \in Procs |->
       IF QuotaExceeded(users[userId], sizes[p])
         THEN Done("uploadFile", 0, Ret("Storage quota exceeded"))
         ELSE [Idle EXCEPT !.op = "uploadFile", !.pc = "cloudinary",
                           !.uid = userId, !.size = sizes[p], !.options = options]]
  /\ UNCHANGED <<users, files, blobs, nextId, now, faults, verified, client>>

\* lines 334-393: what the .then / .catch of one upload resolves to: the
\* file data, or null for a failed upload
UploadResult(pr) == IF pr.ret.status = "ok" THEN <<pr.fid>> ELSE <<>>

\* lines 396-401: Promise.all resolves; the nulls are filtered out and the
\* rest is handed to onUploadComplete
SuccessfulUploads == UploadResult(procs["s1"]) \o UploadResult(procs["s2"])

HandleUploadDone ==
  /\ \A p \in Procs : procs[p].op = "uploadFile" /\ procs[p].pc = "done"
  /\ procs' = [p \in Procs |->
       IF p = "s1"
         THEN Done("handleUpload", 0,
                   [Count(Len(SuccessfulUploads)) EXCEPT !.files = SuccessfulUploads])
         ELSE Idle]
  /\ UNCHANGED <<users, files, blobs, nextId, now, faults, verified, client>>

\* ================================================================= hashing
\* hashPassword (lines 377-384) on a JavaScript string, taken as its sequence
\* of UTF-16 code units: "a", "b", an unpaired high surrogate (0xD800) and an
\* unpaired low surrogate (0xDC00), which together form the pair of U+10000.
CodeUnits == {97, 98, 55296, 56320}

RECURSIVE StringsUpTo(_)
StringsUpTo(n) ==
  IF n = 0 THEN {<<>>}
  ELSE LET shorter == StringsUpTo(n - 1) IN
       shorter \cup {Append(w, c) : w \in shorter, c \in CodeUnits}

Plaintexts == StringsUpTo(MaxLen)

IsHighSurrogate(c) == c >= 55296 /\ c <= 56319
IsLowSurrogate(c)  == c >= 56320 /\ c <= 57343

\* the UTF-8 bytes of one code point
Utf8(cp) ==
  IF cp < 128 THEN <<cp>>
  ELSE IF cp < 2048 THEN <<192 + (cp \div 64), 128 + (cp % 64)>>
  ELSE IF cp < 65536
    THEN <<224 + (cp \div 4096), 128 + ((cp \div 64) % 64), 128 + (cp % 64)>>
  ELSE <<240 + (cp \div 262144), 128 + ((cp \div 4096) % 64),
         128 + ((cp \div 64) % 64), 128 + (cp % 64)>>

\* lines 379-380: new TextEncoder().encode(password).  A surrogate pair is one
\* code point; a surrogate without its partner is replaced by U+FFFD.
RECURSIVE TextEncode(_)
TextEncode(password) ==
  IF password = <<>> THEN <<>>
  ELSE LET c == Head(password) IN
       IF /\ IsHighSurrogate(c)
          /\ Len(password) >= 2
          /\ IsLowSurrogate(password[2])
         THEN Utf8(65536 + (c - 55296) * 1024 + (password[2] - 56320))
                \o TextEncode(Tail(Tail(password)))
       ELSE IF IsHighSurrogate(c) \/ IsLowSurrogate(c)
         THEN Utf8(65533) \o TextEncode(Tail(password))
       ELSE Utf8(c) \o TextEncode(Tail(password))

\* lines 381-383: the SHA-256 digest of the bytes, in hexadecimal with every
\* byte padded to two digits.  SHA-256 is taken as collision-free: the digest
\* stands for the bytes it was computed from and for nothing else.
Sha256Hex(password) == [sha256 |-> TextEncode(password)]

\* a session hashes a plaintext: the plaintext stays in options.password, the
\* digest is what the call returns
HashPassword(p, password) ==
  /\ IsIdle(p)
  /\ procs' = [procs EXCEPT ![p] =
       [Done("hashPassword", 0, [Ret("ok") EXCEPT !.files = <<Sha256Hex(password)>>])
          EXCEPT !.options = [NoOptions EXCEPT !.password = Some(password)]]]
  /\ UNCHANGED <<users, files, blobs, nextId, now, faults, verified, client>>

\* ============================================================ specification
UploadOptions ==
  [expiresIn : {Undefined, Num(1)}, password : {Absent, Some("a")}]
LinkOptions ==
  [expiresIn : {Undefined, Null, Num(0), Num(1), Num(-1)},
   password  : {Absent} \cup {Some(w) : w \in Passwords}]

Next ==
  \/ Tick
  \/ \E p \in Procs : Return(p)
  \/ \E p \in Procs, u \in Users, z \in Sizes, o \in UploadOptions : Room(MaxFiles) /\ UploadFile(p, u, z, o)
  \/ \E p \in Procs : UploadToCloudinary(p)
  \/ \E p \in Procs : AddDoc(p)
  \/ \E p \in Procs : UploadStorageRead(p)
  \/ \E p \in Procs : UploadStorageWrite(p)
  \/ \E p \in Procs : UploadFails(p)
  \/ \E p \in Procs, f \in FileIds, u \in Users : DeleteFile(p, f, u)
  \/ \E p \in Procs, f \in FileIds : SweepDelGetDoc(p, f)
  \/ \E p \in Procs, f \in FileIds, b \in BOOLEAN : DelDestroy(p, f, b)
  \/ \E p \in Procs, f \in FileIds : DelStorageRead(p, f)
  \/ \E p \in Procs, f \in FileIds : DelStorageWrite(p, f)
  \/ \E p \in Procs, f \in FileIds : DelDeleteDoc(p, f)
  \/ \E p \in Procs, f \in FileIds : DeleteFails(p, f)
  \/ \E p \in Procs, f \in FileIds, u \in Users, e \in Emails : ShareFile(p, f, u, e)
  \/ \E p \in Procs : ShareUpdateDoc(p)
  \/ \E p \in Procs, f \in FileIds, u \in Users, o \in LinkOptions : GenerateShareableLink(p, f, u, o)
  \/ \E p \in Procs : GenUpdateDoc(p)
  \/ \E p \in Procs : UpdateFails(p)
  \/ \E p \in Procs, f \in FileIds, w \in Passwords : VerifyFilePassword(p, f, w)
  \/ \E p \in Procs, f \in FileIds : GetPublicFile(p, f)
  \/ \E p \in Procs, u \in Users : GetUserFiles(p, u)
  \/ \E p \in Procs, e \in Emails : GetSharedFiles(p, e)
  \/ \E p \in Procs : CleanupExpiredFiles(p)

Spec == Init /\ [][Next]_vars


\* ------------------------------------------------------------- sub-systems
\* The whole system is too large to enumerate, so each property is checked on
\* the sub-system made of the operations that write what the property reads.

\* Quota ledger of one user: concurrent uploads and deletes, every store call
\* succeeding.
NextQuota ==
  \/ \E p \in Procs : Return(p)
  \/ \E p \in Procs, z \in Sizes : Room(MaxFiles) /\ UploadFile(p, "A", z, NoOptions)
  \/ \E p \in Procs : UploadToCloudinary(p)
  \/ \E p \in Procs : AddDoc(p)
  \/ \E p \in Procs : UploadStorageRead(p)
  \/ \E p \in Procs : UploadStorageWrite(p)
  \/ \E p \in Procs, f \in FileIds : DeleteFile(p, f, "A")
  \/ \E p \in Procs, f \in FileIds : DelDestroy(p, f, TRUE)
  \/ \E p \in Procs, f \in FileIds : DelStorageRead(p, f)
  \/ \E p \in Procs, f \in FileIds : DelStorageWrite(p, f)
  \/ \E p \in Procs, f \in FileIds : DelDeleteDoc(p, f)

SpecQuota == Init /\ [][NextQuota]_vars


\* Sharing: ownership and password protection of the records of user A under
\* concurrent calls by A and by B.  The clock and the expiration do not bear on
\* them: the clock stands still and no call sets an expiration.
ProtectOnUpload == [expiresIn : {Undefined}, password : {Absent, Some("a")}]
ProtectOnLink ==
  [expiresIn : {Undefined}, password : {Absent} \cup {Some(w) : w \in Passwords}]

NextShare ==
  \/ \E p \in Procs : Return(p)
  \/ \E p \in Procs, o \in ProtectOnUpload : Room(MaxRecords) /\ UploadFile(p, "A", 1, o)
  \/ \E p \in Procs : UploadToCloudinary(p)
  \/ \E p \in Procs : AddDoc(p)
  \/ \E p \in Procs : UploadStorageRead(p)
  \/ \E p \in Procs : UploadStorageWrite(p)
  \/ \E p \in Procs, f \in FileIds, u \in Users : DeleteFile(p, f, u)
  \/ \E p \in Procs, f \in FileIds : DelDestroy(p, f, TRUE)
  \/ \E p \in Procs, f \in FileIds : DelStorageRead(p, f)
  \/ \E p \in Procs, f \in FileIds : DelStorageWrite(p, f)
  \/ \E p \in Procs, f \in FileIds : DelDeleteDoc(p, f)
  \/ \E p \in Procs, f \in FileIds, u \in Users, e \in Emails : ShareFile(p, f, u, e)
  \/ \E p \in Procs : ShareUpdateDoc(p)
  \/ \E p \in Procs, f \in FileIds, u \in Users, o \in ProtectOnLink :
       GenerateShareableLink(p, f, u, o)
  \/ \E p \in Procs : GenUpdateDoc(p)

SpecShare == Init /\ [][NextShare]_vars

\* Reads: what the public gate, the owner's list and the shared list return
\* while the records of user A are published, shared and age.
ReadUploadOptions == [expiresIn : {Undefined, Num(1)}, password : {Absent, Some("a")}]
ReadLinkOptions   == [expiresIn : {Undefined, Null, Num(1)}, password : {Absent, Some("a")}]

NextRead ==
  \/ Tick
  \/ \E p \in Procs : Return(p)
  \/ \E p \in Procs, o \in ReadUploadOptions : Room(MaxRecords) /\ UploadFile(p, "A", 1, o)
  \/ \E p \in Procs : UploadToCloudinary(p)
  \/ \E p \in Procs : AddDoc(p)
  \/ \E p \in Procs : UploadStorageRead(p)
  \/ \E p \in Procs : UploadStorageWrite(p)
  \/ \E p \in Procs, f \in FileIds, e \in Emails : ShareFile(p, f, "A", e)
  \/ \E p \in Procs : ShareUpdateDoc(p)
  \/ \E p \in Procs, f \in FileIds, o \in ReadLinkOptions :
       GenerateShareableLink(p, f, "A", o)
  \/ \E p \in Procs : GenUpdateDoc(p)
  \/ \E p \in Procs, f \in FileIds, w \in Passwords : VerifyFilePassword(p, f, w)
  \/ \E p \in Procs, f \in FileIds : GetPublicFile(p, f)
  \/ \E p \in Procs, u \in Users : GetUserFiles(p, u)
  \/ \E p \in Procs, e \in Emails : GetSharedFiles(p, e)

SpecRead == Init /\ [][NextRead]_vars

\* Expiry sweep: records of user A uploaded with or without an expiration,
\* published, aged, and swept by the periodic cleanup, with failing I/O.
SweepUploadOptions == [expiresIn : {Undefined, Num(1)}, password : {Absent}]
SweepLinkOptions   == [expiresIn : {Undefined, Null, Num(1)}, password : {Absent}]

\* the next step of the call session p is running (its I/O completed)
Continue(p) ==
  \/ Return(p)
  \/ UploadToCloudinary(p)
  \/ AddDoc(p)
  \/ UploadStorageRead(p)
  \/ UploadStorageWrite(p)
  \/ GenUpdateDoc(p)
  \/ \E f \in FileIds : SweepDelGetDoc(p, f)
  \/ \E f \in FileIds : DelDestroy(p, f, TRUE)
  \/ \E f \in FileIds : DelStorageRead(p, f)
  \/ \E f \in FileIds : DelStorageWrite(p, f)
  \/ \E f \in FileIds : DelDeleteDoc(p, f)

\* the timer of initializeCleanupScheduler fires; the sweep runs in the
\* scheduler's own session, the owner's calls in the other one
SweepTick == CleanupExpiredFiles("s2")

NextSweep ==
  \/ Tick
  \/ \E p \in Procs : Continue(p)
  \/ \E o \in SweepUploadOptions : Room(MaxRecords) /\ UploadFile("s1", "A", 1, o)
  \/ \E f \in FileIds, o \in SweepLinkOptions :
       GenerateShareableLink("s1", f, "A", o)
  \/ SweepTick
  \/ \E p \in Procs, f \in FileIds : DelDestroy(p, f, FALSE)
  \/ \E p \in Procs, f \in FileIds : DeleteFails(p, f)

SpecSweep == Init /\ [][NextSweep]_vars

\* Every pending continuation runs once its I/O completes, and the interval
\* timer keeps firing: setInterval(runCleanup, CLEANUP_INTERVAL).
LiveSweep ==
  /\ SpecSweep
  /\ \A p \in Procs : WF_vars(Continue(p))
  /\ SF_vars(SweepTick)

\* Delete with failing I/O: the records of user A are uploaded and deleted by
\* their owner while the blob store answers with errors or cannot be reached.
NextDelete ==
  \/ \E p \in Procs : Return(p)
  \/ \E p \in Procs : Room(MaxRecords) /\ UploadFile(p, "A", 1, NoOptions)
  \/ \E p \in Procs : UploadToCloudinary(p)
  \/ \E p \in Procs : AddDoc(p)
  \/ \E p \in Procs : UploadStorageRead(p)
  \/ \E p \in Procs : UploadStorageWrite(p)
  \/ \E p \in Procs, f \in FileIds : DeleteFile(p, f, "A")
  \/ \E p \in Procs, f \in FileIds, b \in BOOLEAN : DelDestroy(p, f, b)
  \/ \E p \in Procs, f \in FileIds : DelStorageRead(p, f)
  \/ \E p \in Procs, f \in FileIds : DelStorageWrite(p, f)
  \/ \E p \in Procs, f \in FileIds : DelDeleteDoc(p, f)
  \/ \E p \in Procs, f \in FileIds : DeleteFails(p, f)

SpecDelete == Init /\ [][NextDelete]_vars

\* Link generation: the owner A publishes a record again and again with every
\* kind of expiresIn (omitted, null, a number of hours), with or without
\* a password, while the clock runs and a viewer in the other session reads
\* the record through the public gate.
ExpiryUploadOptions == [expiresIn : {Undefined, Num(1)}, password : {Absent}]
ExpiryLinkOptions ==
  [expiresIn : {Undefined, Null, Num(2)}, password : {Absent, Some("a")}]

NextLink ==
  \/ Tick
  \/ \E p \in Procs : Return(p)
  \/ \E o \in ExpiryUploadOptions : Room(MaxRecords) /\ UploadFile("s1", "A", 1, o)
  \/ \E p \in Procs : UploadToCloudinary(p)
  \/ \E p \in Procs : AddDoc(p)
  \/ \E p \in Procs : UploadStorageRead(p)
  \/ \E p \in Procs : UploadStorageWrite(p)
  \/ \E f \in FileIds, o \in ExpiryLinkOptions : GenerateShareableLink("s1", f, "A", o)
  \/ \E p \in Procs : GenUpdateDoc(p)
  \/ \E f \in FileIds : GetPublicFile("s2", f)

SpecLink == Init /\ [][NextLink]_vars

\* Password check: every record of user A is protected at upload with the
\* password "a"; the owner generates links, with or without another password,
\* and a viewer in the other session tries passwords.
FirstPassword == "a"
VerifyUploadOptions == [expiresIn : {Undefined}, password : {Some(FirstPassword)}]
VerifyLinkOptions   == [expiresIn : {Undefined}, password : {Absent, Some("b")}]

NextVerify ==
  \/ \E p \in Procs : Return(p)
  \/ \E o \in VerifyUploadOptions : Room(MaxRecords) /\ UploadFile("s1", "A", 1, o)
  \/ \E p \in Procs : UploadToCloudinary(p)
  \/ \E p \in Procs : AddDoc(p)
  \/ \E p \in Procs : UploadStorageRead(p)
  \/ \E p \in Procs : UploadStorageWrite(p)
  \/ \E f \in FileIds, o \in VerifyLinkOptions : GenerateShareableLink("s1", f, "A", o)
  \/ \E p \in Procs : GenUpdateDoc(p)
  \/ \E f \in FileIds, w \in Passwords : VerifyFilePassword("s2", f, w)

SpecVerify == Init /\ [][NextVerify]_vars

\* One reaper: the owner A uploads records with or without an expiration and
\* publishes some of them; the scheduler's session sweeps; no store call fails.
NextReap ==
  \/ Tick
  \/ \E p \in Procs : Continue(p)
  \/ \E o \in SweepUploadOptions : Room(MaxFiles) /\ UploadFile("s1", "A", 1, o)
  \/ \E f \in FileIds : GenerateShareableLink("s1", f, "A", NoOptions)
  \/ SweepTick

SpecReap == Init /\ [][NextReap]_vars

\* One reaper with failing I/O: as above, and the blob store or the document
\* store fails some of the calls of the deletes.
NextReapFaulty ==
  \/ NextReap
  \/ \E p \in Procs, f \in FileIds : DelDestroy(p, f, FALSE)
  \/ \E p \in Procs, f \in FileIds : DeleteFails(p, f)

SpecReapFaulty == Init /\ [][NextReapFaulty]_vars

\* every pending continuation runs once its I/O completes
LiveReap == SpecReapFaulty /\ \A p \in Procs : WF_vars(Continue(p))

\* Two reapers: every signed-in client runs the scheduler, so both sessions
\* sweep. The owner A uploads and publishes from the first session; uploads
\* and sweeps do not overlap here, so that the ledger is written by the
\* deletes of the sweeps alone; no store call fails.
Uploading == \E q \in Procs : procs[q].op = "uploadFile" /\ procs[q].pc # "done"

NextTwoSweeps ==
  \/ Tick
  \/ \E p \in Procs : Continue(p)
  \/ \E o \in SweepUploadOptions :
       /\ \A q \in Procs : procs[q].op # "cleanupExpiredFiles"
       /\ Room(MaxRecords)
       /\ UploadFile("s1", "A", 1, o)
  \/ \E f \in FileIds : GenerateShareableLink("s1", f, "A", NoOptions)
  \/ \E p \in Procs : ~Uploading /\ CleanupExpiredFiles(p)

SpecTwoSweeps == Init /\ [][NextTwoSweeps]_vars

\* Upload with failing I/O: user A uploads from both sessions while the blob
\* store or the document store fails some of the calls.
NextUpload ==
  \/ \E p \in Procs : Return(p)
  \/ \E p \in Procs, z \in Sizes : Room(MaxFiles) /\ UploadFile(p, "A", z, NoOptions)
  \/ \E p \in Procs : UploadToCloudinary(p)
  \/ \E p \in Procs : AddDoc(p)
  \/ \E p \in Procs : UploadStorageRead(p)
  \/ \E p \in Procs : UploadStorageWrite(p)
  \/ \E p \in Procs : UploadFails(p)

SpecUpload == Init /\ [][NextUpload]_vars

\* Visibility: the owner A uploads, shares, publishes and deletes records in
\* the first session while the clock runs and the scheduler's session sweeps.
NextPublish ==
  \/ Tick
  \/ \E p \in Procs : Continue(p)
  \/ \E o \in SweepUploadOptions : Room(MaxRecords) /\ UploadFile("s1", "A", 1, o)
  \/ \E f \in FileIds, e \in Emails : ShareFile("s1", f, "A", e)
  \/ \E p \in Procs : ShareUpdateDoc(p)
  \/ \E f \in FileIds, o \in SweepLinkOptions : GenerateShareableLink("s1", f, "A", o)
  \/ \E f \in FileIds : DeleteFile("s1", f, "A")
  \/ SweepTick

SpecPublish == Init /\ [][NextPublish]_vars

\* Racing links: the owner A uploads a plain record and then asks for links
\* on it from both sessions, every call being issued while the record is
\* still unpublished, so that each call reads the record as uploaded and the
\* calls that follow the first commit are the ones that overlapped it.
NextRace ==
  \/ Tick
  \/ \E p \in Procs : Return(p)
  \/ Room(MaxRecords) /\ UploadFile("s1", "A", 1, NoOptions)
  \/ \E p \in Procs : UploadToCloudinary(p)
  \/ \E p \in Procs : AddDoc(p)
  \/ \E p \in Procs : UploadStorageRead(p)
  \/ \E p \in Procs : UploadStorageWrite(p)
  \/ \E p \in Procs, f \in DOMAIN files, o \in ExpiryLinkOptions :
       ~files[f].isPublic /\ GenerateShareableLink(p, f, "A", o)
  \/ \E p \in Procs : GenUpdateDoc(p)

SpecRace == Init /\ [][NextRace]_vars

\* Hashing alone: both sessions hash plaintexts.
NextHash ==
  \/ \E p \in Procs : Return(p)
  \/ \E p \in Procs, w \in Plaintexts : HashPassword(p, w)

SpecHash == Init /\ [][NextHash]_vars

\* Batch upload: user A drops two files at a time; the blob store or the
\* document store fails some of the calls.
NextBatch ==
  \/ \E sizes \in [Procs -> Sizes] : HandleUpload("A", sizes, NoOptions)
  \/ \E p \in Procs : UploadToCloudinary(p)
  \/ \E p \in Procs : AddDoc(p)
  \/ \E p \in Procs : UploadStorageRead(p)
  \/ \E p \in Procs : UploadStorageWrite(p)
  \/ \E p \in Procs : UploadFails(p)
  \/ HandleUploadDone
  \/ \E p \in Procs : procs[p].op = "handleUpload" /\ Return(p)

SpecBatch == Init /\ [][NextBatch]_vars

\* Racing deletes: the owner A uploads records and deletes them from both
\* sessions, also again after a failed delete; a delete is only issued once
\* the uploads have returned, so that the ledger is exact when deletes start.
NextRelease ==
  \/ \E p \in Procs : Return(p)
  \/ \E p \in Procs : Room(MaxRecords) /\ UploadFile(p, "A", 1, NoOptions)
  \/ \E p \in Procs : UploadToCloudinary(p)
  \/ \E p \in Procs : AddDoc(p)
  \/ \E p \in Procs : UploadStorageRead(p)
  \/ \E p \in Procs : UploadStorageWrite(p)
  \/ \E p \in Procs, f \in FileIds : ~Uploading /\ DeleteFile(p, f, "A")
  \/ \E p \in Procs, f \in FileIds : DelDestroy(p, f, TRUE)
  \/ \E p \in Procs, f \in FileIds : DelStorageRead(p, f)
  \/ \E p \in Procs, f \in FileIds : DelStorageWrite(p, f)
  \/ \E p \in Procs, f \in FileIds : DelDeleteDoc(p, f)
  \/ \E p \in Procs, f \in FileIds : DeleteFails(p, f)

SpecRelease == Init /\ [][NextRelease]_vars

\* Hours of a link: the owner A publishes records with expiresIn zero,
\* positive or negative while the clock runs.
HoursLinkOptions == [expiresIn : {Num(0), Num(1), Num(-1)}, password : {Absent}]

NextHours ==
  \/ Tick
  \/ \E p \in Procs : Return(p)
  \/ \E p \in Procs, o \in ExpiryUploadOptions : Room(MaxRecords) /\ UploadFile(p, "A", 1, o)
  \/ \E p \in Procs : UploadToCloudinary(p)
  \/ \E p \in Procs : AddDoc(p)
  \/ \E p \in Procs : UploadStorageRead(p)
  \/ \E p \in Procs : UploadStorageWrite(p)
  \/ \E p \in Procs, f \in FileIds, o \in HoursLinkOptions :
       GenerateShareableLink(p, f, "A", o)
  \/ \E p \in Procs : GenUpdateDoc(p)

SpecHours == Init /\ [][NextHours]_vars

\* Password check with failing reads: as the password check above, and the
\* document store fails some of the reads of verifyFilePassword.
NextProbe ==
  \/ NextVerify
  \/ \E f \in FileIds, w \in Passwords : VerifyReadFails("s2", f, w)

SpecProbe == Init /\ [][NextProbe]_vars

\* The cleanup scheduler alone: it is started, its interval fires as time
\* passes, some of its sweeps fail, and it is stopped. Nothing is uploaded, so
\* every sweep that does not fail matches no record.
NextScheduler ==
  \/ SchedulerTick
  \/ \E p \in Procs : Return(p)
  \/ \E p \in Procs, ok \in BOOLEAN : InitializeCleanupScheduler(p, ok)
  \/ \E p \in Procs, ok \in BOOLEAN : IntervalFires(p, ok)
  \/ StopScheduler

SpecScheduler == Init /\ [][NextScheduler]_vars

\* The file list: the owner A uploads a file with or without a password,
\* shares it with B, and may protect it later; A looks at the owner's page
\* and B at the page of the files shared with B, in the same or in another
\* order; both ask for downloads, and B answers the password prompt.
ListUploadOptions == [expiresIn : {Undefined}, password : {Absent, Some("a")}]
ListLinkOptions   == [expiresIn : {Undefined}, password : {Some("a")}]

NextList ==
  \/ Return("s1")
  \/ \E o \in ListUploadOptions : Room(MaxRecords) /\ UploadFile("s1", "A", 1, o)
  \/ \E p \in Procs : UploadToCloudinary(p)
  \/ \E p \in Procs : AddDoc(p)
  \/ \E p \in Procs : UploadStorageRead(p)
  \/ \E p \in Procs : UploadStorageWrite(p)
  \/ \E f \in FileIds, e \in Emails : ShareFile("s1", f, "A", e)
  \/ \E p \in Procs : ShareUpdateDoc(p)
  \/ \E f \in FileIds, o \in ListLinkOptions : GenerateShareableLink("s1", f, "A", o)
  \/ \E p \in Procs : GenUpdateDoc(p)
  \/ ShowUserFiles("A")
  \/ \E e \in Emails : ShowSharedFiles("B", e)
  \/ \E i \in 1..MaxFiles : HandleDownloadFile(i)
  \/ \E w \in DownloadPasswords : SetDownloadPassword(w)
  \/ HandleVerifyDownloadPassword("s2")
  \/ VerifyDownloadFails("s2")
  \/ VerifyDownloadDone("s2")

SpecList == Init /\ [][NextList]_vars

\* One expiration checker: the owner A uploads a file with or without an
\* expiration and shares it with B; time passes; the owner's page or B's
\* page of shared files is shown, and the checker of a listed file with an
\* expiration is mounted as soon as the list is shown, ticks, and is
\* unmounted.
NextChecker ==
  \/ ~EffectPending /\ Tick
  \/ Return("s1")
  \/ \E o \in ExpiryUploadOptions : Room(MaxRecords) /\ UploadFile("s1", "A", 1, o)
  \/ \E p \in Procs : UploadToCloudinary(p)
  \/ \E p \in Procs : AddDoc(p)
  \/ \E p \in Procs : UploadStorageRead(p)
  \/ \E p \in Procs : UploadStorageWrite(p)
  \/ \E f \in FileIds, e \in Emails : ShareFile("s1", f, "A", e)
  \/ \E p \in Procs : ShareUpdateDoc(p)
  \/ ShowUserFiles("A")
  \/ \E e \in Emails : ShowSharedFiles("B", e)
  \/ \E i \in 1..MaxFiles : MountChecker(i)
  \/ TimerFires
  \/ UnmountChecker

SpecChecker == Init /\ [][NextChecker]_vars

\* ================================================================ properties
Quiescent == \A p \in Procs : procs[p].pc \in {"idle", "done"}

\* C1: for every user, once no call is in progress (every create and delete
\* issued so far has returned), 0 <= usedStorage <= totalStorage.
C1_UsedStorageInRange ==
  Quiescent =>
    \A u \in Users : /\ 0 <= users[u].usedStorage
                     /\ users[u].usedStorage <= users[u].totalStorage

\* C2: an upload whose size does not fit (usedStorage + size > totalStorage) is
\* rejected at the check with the quota error, holds no blob and leaves the
\* ledger, the records and the blob store as they were; an upload that fits
\* passes the check and goes on to the blob upload.
C2_QuotaCheckFailsClosed ==
  [][\A p \in Procs, u \in Users, z \in Sizes, o \in UploadOptions :
       UploadFile(p, u, z, o) =>
         IF users[u].usedStorage + z > users[u].totalStorage
           THEN /\ procs'[p] = Done("uploadFile", 0, Ret("Storage quota exceeded"))
                /\ UNCHANGED <<users, files, blobs, nextId>>
           ELSE /\ procs'[p].pc = "cloudinary"
                /\ procs'[p].size = z]_vars

\* a second upload was turned away while the first one's bytes stay recorded
C2_Witness ==
  \E p \in Procs :
    /\ procs[p] = Done("uploadFile", 0, Ret("Storage quota exceeded"))
    /\ users["A"].usedStorage > 0
    /\ users["A"].usedStorage < users["A"].totalStorage
    /\ DOMAIN files # {}

\* C10: a quota release never computes a usage below zero: every delete that
\* is about to write the ledger writes a value >= 0.
C10_ReleaseNeverNegative ==
  \A p \in Procs : \A f \in DOMAIN procs[p].sub :
    procs[p].sub[f].pc = "storageWrite" => procs[p].sub[f].newUsed >= 0


\* C3: once a record is password protected, no step changes its stored hash
\* or clears isPasswordProtected, whatever password a later
\* generateShareableLink call carries.
C3_ProtectionImmutable ==
  [][\A f \in DOMAIN files :
       (files[f].isPasswordProtected = Some(TRUE) /\ f \in DOMAIN files') =>
         /\ files'[f].password = files[f].password
         /\ files'[f].isPasswordProtected = Some(TRUE)]_vars

Rejected(op, f) == Done(op, f, Ret("You do not have permission to share this file"))

\* C4: deleteFile, generateShareableLink and shareFile called on an existing
\* record by anyone but its owner end at the ownership check with the
\* unauthorized error, and the record, the ledger and the blob store are
\* unchanged; no call that got past the check acts for a non-owner.
C4_NonOwnerRejected ==
  [][/\ \A p \in Procs : (IsIdle(p) /\ procs'[p].pc # "idle") =>
        \A f \in DOMAIN files : \A u \in Users \ {files[f].userId} :
          /\ DeleteFile(p, f, u) =>
               /\ procs'[p] = Done("deleteFile", f, Ret("Unauthorized"))
               /\ UNCHANGED <<files, users, blobs>>
          /\ \A o \in ProtectOnLink :
               GenerateShareableLink(p, f, u, o) =>
                 /\ procs'[p] = Rejected("generateShareableLink", f)
                 /\ UNCHANGED <<files, users, blobs>>
          /\ \A e \in Emails :
               ShareFile(p, f, u, e) =>
                 /\ procs'[p] = Rejected("shareFile", f)
                 /\ UNCHANGED <<files, users, blobs>>
     /\ \A p \in Procs :
          (procs[p].pc \in {"updateDoc", "deleting"} /\ procs[p].fid \in DOMAIN files)
            => files[procs[p].fid].userId = procs[p].uid]_vars

\* B was turned away from deleting and from publishing A's record, which is
\* still there
C4_Witness ==
  \E f \in DOMAIN files :
    /\ files[f].userId = "A"
    /\ ~files[f].isPublic
    /\ f \in blobs
    /\ procs["s1"] = Done("deleteFile", f, Ret("Unauthorized"))
    /\ procs["s2"] = Rejected("generateShareableLink", f)

\* C9: every record carries a password hash exactly when it is marked
\* isPasswordProtected = true.
C9_HashIffProtected ==
  \A f \in DOMAIN files :
    (files[f].password # Absent) <=> (files[f].isPasswordProtected = Some(TRUE))

\* a record uploaded without a password and protected later through a link
C9_Witness ==
  \E f \in DOMAIN files :
    /\ files[f].isPublic
    /\ files[f].password = Some(hashPassword("b"))
    /\ files[f].isPasswordProtected = Some(TRUE)

ReturnedBy(p, op) == procs[p].pc = "done" /\ procs[p].op = op

\* C5: the public gate returns a record only if it is public and its
\* expiresAt is absent or strictly later than the time of the call; a record
\* with expiresAt <= now, the boundary expiresAt = now included, is rejected.
C5_GateRejectsAtBoundary ==
  \A p \in Procs :
    (ReturnedBy(p, "getPublicFile") /\ procs[p].ret.status = "ok") =>
      LET d == procs[p].ret.files[1].data IN
      /\ d.isPublic
      /\ d.expiresAt = Absent \/ The(d.expiresAt) > procs[p].ret.at

\* C6: the public gate hands out the download reference of a password
\* protected record only after verifyFilePassword returned true for it.
C6_NoReferenceBeforeVerify ==
  \A p \in Procs :
    (/\ ReturnedBy(p, "getPublicFile")
     /\ procs[p].ret.status = "ok"
     /\ procs[p].ret.files[1].data.isPasswordProtected = Some(TRUE))
      => procs[p].fid \in verified

\* C7: no read returns a record that is public and whose expiresAt is before
\* the time of the read.
C7_NoExpiredRecordServed ==
  \A p \in Procs :
    (procs[p].pc = "done" /\ procs[p].op \in {"getPublicFile", "getUserFiles", "getSharedFiles"}) =>
      \A i \in DOMAIN procs[p].ret.files :
        LET d == procs[p].ret.files[i].data IN
        ~(d.isPublic /\ d.expiresAt # Absent /\ The(d.expiresAt) < procs[p].ret.at)


ExpiredPublic(f) ==
  /\ f \in DOMAIN files
  /\ files[f].isPublic
  /\ files[f].expiresAt # Absent
  /\ The(files[f].expiresAt) < now

\* C8: with the sweep invoked again and again and store calls eventually
\* succeeding, every record that is public with expiresAt in the past is
\* eventually deleted.
C8_ExpiredEventuallyDeleted ==
  \A f \in FileIds : ExpiredPublic(f) ~> (f \notin DOMAIN files)

\* C8 as amended: with the sweep invoked again and again and store calls
\* eventually succeeding, every record that is public with expiresAt in the
\* past is eventually deleted, unless its owner clears or extends the
\* expiration first (generateShareableLink with expiresIn null or positive).
C8_ExpiredDeletedUnlessRenewed ==
  \A f \in FileIds : ExpiredPublic(f) ~> (f \notin DOMAIN files \/ ~ExpiredPublic(f))

\* a sweep matched an expired public record and the record is gone
C8_Witness ==
  /\ \E p \in Procs : /\ procs[p].op = "cleanupExpiredFiles"
                      /\ procs[p].pc = "done"
                      /\ procs[p].ret.n >= 1
  /\ nextId > 1
  /\ DOMAIN files = {}

\* C11: a deleteFile of the owner that succeeds releases exactly the record's
\* size (its ledger write lowers usedStorage by size) and removes the record:
\* when it returns success the record is absent, and stays so.
C11_DeleteRemovesAndReleases ==
  [][\A p \in Procs : \A f \in DOMAIN procs[p].sub :
       procs[p].op = "deleteFile" =>
         /\ DelStorageWrite(p, f) =>
              users'[Task(p, f).userId].usedStorage =
                users[Task(p, f).userId].usedStorage - Task(p, f).size
         /\ DelDeleteDoc(p, f) =>
              /\ f \notin DOMAIN files'
              /\ procs'[p] = Done("deleteFile", f, Ret("ok"))]_vars

\* C12: a failure of the blob-store delete request is not fatal to deleteFile:
\* whatever happens to a delete waiting on that request (an error response or
\* a request that throws), its next step is the quota release, never an error.
C12_BlobFailureNotFatal ==
  [][\A p \in Procs : \A f \in DOMAIN procs[p].sub :
       (procs[p].op = "deleteFile" /\ TaskAt(p, f, "destroy")) =>
         \/ procs'[p] = procs[p]
         \/ /\ procs'[p].pc = "deleting"
            /\ procs'[p].sub[f].pc = "storageRead"]_vars

\* the record the owner's generateShareableLink call in session p will update
LinkTarget(p) == procs[p].fid

\* C13: generateShareableLink by the owner with expiresIn = null asks for the
\* expiration to be removed, and its update removes the expiresAt field
\* entirely: the record then has no expiresAt (not a zero date) and the next
\* read through the public gate returns it without one.
C13_NullClearsExpiration ==
  [][\A p \in Procs :
       /\ (IsIdle(p) /\ procs'[p].pc = "updateDoc") =>
            \A f \in DOMAIN files : \A o \in ExpiryLinkOptions :
              (o.expiresIn = Null /\ GenerateShareableLink(p, f, files[f].userId, o))
                => procs'[p].updateData.expiresAt = Null
       /\ (/\ GenUpdateDoc(p)
           /\ procs[p].updateData.expiresAt = Null
           /\ LinkTarget(p) \in DOMAIN files)
            => /\ files'[LinkTarget(p)].expiresAt = Absent
               /\ PublicFile(LinkTarget(p))' # <<>>
               /\ PublicFile(LinkTarget(p))'[1].data.expiresAt = Absent]_vars

\* a viewer read the record with an expiration; the record has none now
C13_Witness ==
  /\ ReturnedBy("s2", "getPublicFile")
  /\ procs["s2"].ret.status = "ok"
  /\ procs["s2"].ret.files[1].data.expiresAt # Absent
  /\ procs["s2"].fid \in DOMAIN files
  /\ files[procs["s2"].fid].expiresAt = Absent
  /\ procs["s1"] = Done("generateShareableLink", procs["s2"].fid, Ret("ok"))

C15_OmittedLeavesExpiration ==
  [][\A p \in Procs :
       /\ (IsIdle(p) /\ procs'[p].pc = "updateDoc") =>
            \A f \in DOMAIN files : \A o \in ExpiryLinkOptions :
              (o.expiresIn = Undefined /\ GenerateShareableLink(p, f, files[f].userId, o))
                => procs'[p].updateData.expiresAt = Undefined
       /\ (/\ GenUpdateDoc(p)
           /\ procs[p].updateData.expiresAt = Undefined
           /\ LinkTarget(p) \in DOMAIN files)
            => LET pw == procs[p].updateData.password IN
               /\ files' = [files EXCEPT ![LinkTarget(p)] =
                    [@ EXCEPT !.isPublic = TRUE,
                              !.password = IF pw # Absent THEN pw ELSE @,
                              !.isPasswordProtected =
                                 IF pw # Absent THEN Some(TRUE) ELSE @]]
               /\ UNCHANGED <<users, blobs>>]_vars

\* a record that still expires one hour after its upload, as set by
\* uploadFile, although links were generated for it, one with a password
C15_Witness ==
  \E f \in DOMAIN files :
    /\ files[f].isPublic
    /\ files[f].expiresAt = Some(files[f].uploadedAt + 1)
    /\ files[f].password # Absent
    /\ procs["s1"] = Done("generateShareableLink", f, Ret("ok"))

\* C16: verifyFilePassword on a record that is not protected returns true for
\* every password; on a protected record it returns true for the password
\* given when protection was first set and false for every other one.
C16_VerifyAgainstFirstPassword ==
  [][\A p \in Procs : (IsIdle(p) /\ procs'[p].op = "verifyFilePassword") =>
       \A f \in DOMAIN files : \A w \in Passwords :
         VerifyFilePassword(p, f, w) =>
           procs'[p].ret.status =
             IF files[f].isPasswordProtected # Some(TRUE) THEN "true"
             ELSE IF w = FirstPassword THEN "true"
             ELSE "false"]_vars

Sweeping(p) == procs[p].op = "cleanupExpiredFiles" /\ procs[p].pc = "deleting"

\* C17: when no store call fails, a sweep starts a delete for exactly the
\* records that are public with expiresAt < now at its query (and returns 0 at
\* once when there is none, as a second sweep right after the first does);
\* only records matched by a sweep are ever removed; and when the sweep
\* returns, every record it matched is gone.
C17_SweepDeletesExactlyExpired ==
  [][\A p \in Procs :
       /\ CleanupExpiredFiles(p) =>
            LET hit == {f \in DOMAIN files : ExpiredPublic(f)} IN
            IF hit = {}
              THEN procs'[p] = Done("cleanupExpiredFiles", 0, Count(0))
              ELSE Sweeping(p)' /\ DOMAIN procs'[p].sub = hit
       /\ \A f \in DOMAIN files \ DOMAIN files' :
            \E q \in Procs : Sweeping(q) /\ f \in DOMAIN procs[q].sub
       /\ (Sweeping(p) /\ procs'[p].pc = "done") =>
            /\ \A f \in DOMAIN procs[p].sub : f \notin DOMAIN files'
            /\ procs'[p].ret.status = "ok"]_vars

\* of two records one was public and expired: a sweep matched and removed it
\* and left the other one in place
C17_Witness ==
  /\ procs["s2"] = Done("cleanupExpiredFiles", 0, Count(1))
  /\ nextId = 3
  /\ Cardinality(DOMAIN files) = 1
  /\ \A f \in DOMAIN files : ~ExpiredPublic(f) /\ files[f].expiresAt # Absent

\* C18: the value a sweep returns is the number of records it removed: the
\* deletes of the sweep that ended in success, the one that completes the
\* sweep included; a delete that failed is not counted.
C18_SweepCountsRemoved ==
  [][\A p \in Procs :
       (Sweeping(p) /\ procs'[p].pc = "done") =>
         LET removed == {f \in DOMAIN procs[p].sub :
                           procs[p].sub[f].pc = "ok" \/ DelDeleteDoc(p, f)} IN
         procs'[p].ret.n = Cardinality(removed)]_vars

\* C19: a delete that fails inside a sweep leaves the sweep's other deletes
\* as they are and running; the sweep returns normally, never with an error;
\* and once no further call can fail, every matched record whose delete is
\* still under way is eventually deleted and the sweep eventually returns.
C19_FailureIsolated ==
  /\ [][\A p \in Procs :
         /\ \A g \in DOMAIN procs[p].sub :
              (Sweeping(p) /\ DeleteFails(p, g)) =>
                \A f \in DOMAIN procs[p].sub \ {g} :
                  ~Settled(procs[p].sub[f]) =>
                    Sweeping(p)' /\ procs'[p].sub[f] = procs[p].sub[f]
         /\ (Sweeping(p) /\ procs'[p].pc = "done") =>
              procs'[p].ret.status = "ok"]_vars
  /\ \A p \in Procs : \A f \in FileIds :
       (/\ Sweeping(p)
        /\ faults = MaxFaults
        /\ f \in DOMAIN procs[p].sub
        /\ ~Settled(procs[p].sub[f]))
         ~> (f \notin DOMAIN files /\ ~Sweeping(p))

\* a sweep over two expired records returned although one of its deletes
\* failed: that record is still there, the other one is gone
C19_Witness ==
  /\ procs["s2"] = Done("cleanupExpiredFiles", 0, Count(2))
  /\ faults = 1
  /\ Cardinality(DOMAIN files) = 1
  /\ \A f \in DOMAIN files : ExpiredPublic(f)
  /\ users["A"].usedStorage = 1

\* the bytes of the records of user u
RECURSIVE SizeOf(_, _)
SizeOf(u, S) ==
  IF S = {} THEN 0
  ELSE LET f == CHOOSE g \in S : TRUE IN
       (IF files[f].userId = u THEN files[f].size ELSE 0) + SizeOf(u, S \ {f})

\* C20: sweeps that overlap leave what one sweep leaves: once every call has
\* returned, each user's usedStorage is the total size of the records the
\* user still has (each removed record was released once).
C20_TwoSweepsAsOne ==
  Quiescent => \A u \in Users : users[u].usedStorage = SizeOf(u, DOMAIN files)

\* C21: getUserFiles(ownerId) returns exactly the records owned by ownerId
\* that are not both public and expired (a private record with a past
\* expiresAt is listed), each once, newest upload first.
C21_ListOwnedNotExpiredPublic ==
  [][\A p \in Procs :
       (IsIdle(p) /\ procs'[p].op = "getUserFiles") =>
         \A u \in Users :
           GetUserFiles(p, u) =>
             LET out == procs'[p].ret.files IN
             /\ {out[i].id : i \in DOMAIN out} =
                  {f \in DOMAIN files : files[f].userId = u /\ ~ExpiredPublic(f)}
             /\ \A i, j \in DOMAIN out :
                  /\ (i < j) => out[i].data.uploadedAt >= out[j].data.uploadedAt
                  /\ (i # j) => out[i].id # out[j].id
             /\ \A i \in DOMAIN out : out[i].data = files[out[i].id]]_vars

\* C22: an uploadFile call writes neither a record nor the ledger before its
\* addDoc has succeeded, so when it fails at the blob upload or at addDoc it
\* reports the failure, no record exists for the upload and usedStorage is
\* as it was.
C22_FailedUploadLeavesNothing ==
  [][\A p \in Procs :
       /\ (IsIdle(p) /\ procs'[p].op = "uploadFile") => UNCHANGED <<users, files>>
       /\ UploadToCloudinary(p) => UNCHANGED <<users, files>>
       /\ (procs[p].pc \in {"cloudinary", "addDoc"} /\ UploadFails(p)) =>
            /\ UNCHANGED <<users, files>>
            /\ procs'[p].ret.status = "io error"
            /\ procs'[p].fid \notin DOMAIN files']_vars

\* an upload failed at addDoc, after its blob was stored: no record, nothing
\* charged
C22_Witness ==
  /\ procs["s1"] = Done("uploadFile", 1, Ret("io error"))
  /\ IsIdle("s2")
  /\ blobs = {1}
  /\ files = <<>>
  /\ users["A"].usedStorage = 0

\* C23: a record that is public stays public for as long as it exists: every
\* step of uploadFile, shareFile, generateShareableLink, deleteFile and the
\* sweep either leaves isPublic = true or removes the record.
C23_PublicUntilDeleted ==
  [][\A f \in DOMAIN files :
       files[f].isPublic => (f \notin DOMAIN files' \/ files'[f].isPublic)]_vars

\* a published record has since been shared by its owner and passed over by
\* a sweep, and is still public
C23_Witness ==
  /\ 1 \in DOMAIN files
  /\ files[1].isPublic
  /\ files[1].sharedWith # {}
  /\ files[1].expiresAt # Absent
  /\ procs["s1"] = Done("shareFile", 1, Ret("ok"))
  /\ procs["s2"] = Done("cleanupExpiredFiles", 0, Count(0))

\* C24: shareFile by the owner of an existing record is accepted, and its
\* write adds the email to sharedWith and changes no other field and no other
\* record; when the email is already in sharedWith the call succeeds and the
\* record is left exactly as it was.
C24_ShareAddsIdempotently ==
  [][\A p \in Procs :
       /\ (IsIdle(p) /\ procs'[p].op = "shareFile") =>
            \A f \in DOMAIN files : \A e \in Emails :
              ShareFile(p, f, files[f].userId, e) =>
                /\ procs'[p].pc = "updateDoc"
                /\ procs'[p].fid = f /\ procs'[p].email = e
       /\ (/\ At(p, "shareFile", "updateDoc")
           /\ ShareUpdateDoc(p)
           /\ procs[p].fid \in DOMAIN files) =>
            LET f == procs[p].fid
                e == procs[p].email IN
            /\ procs'[p] = Done("shareFile", f, Ret("ok"))
            /\ files' = [files EXCEPT ![f].sharedWith = @ \cup {e}]
            /\ e \in files'[f].sharedWith
            /\ (e \in files[f].sharedWith) => files' = files]_vars

\* both sessions have shared record 1 with the same email and both calls
\* succeeded: the one that wrote second found the email already there
C24_Witness ==
  /\ procs["s1"] = Done("shareFile", 1, Ret("ok"))
  /\ procs["s2"] = Done("shareFile", 1, Ret("ok"))
  /\ 1 \in DOMAIN files
  /\ files[1].sharedWith = {"x@m"}

\* C25: nothing serialises the quota check with the commit.  The check of
\* uploadFile passes exactly when the committed usedStorage plus the file's
\* size is within totalStorage, whatever uploads are in flight, and reserves
\* nothing; addDoc then persists the record without looking at the ledger,
\* and the ledger update that follows never takes a record back.  Hence two
\* uploads of one user can both pass and both persist their records with
\* sizes that together exceed totalStorage (the witness).
C25_CheckIgnoresUploadsInFlight ==
  [][\A p \in Procs :
       /\ (IsIdle(p) /\ procs'[p].op = "uploadFile") =>
            \A z \in Sizes :
              UploadFile(p, "A", z, NoOptions) =>
                /\ (procs'[p].pc = "cloudinary") <=>
                     (users["A"].usedStorage + z <= users["A"].totalStorage)
                /\ UNCHANGED <<users, files>>
       /\ AddDoc(p) =>
            /\ DOMAIN files' = DOMAIN files \cup {procs[p].fid}
            /\ files'[procs[p].fid].size = procs[p].size
            /\ files'[procs[p].fid].userId = procs[p].uid
       /\ (UploadStorageRead(p) \/ UploadStorageWrite(p)) => files' = files]_vars

\* two uploads of user A overlapped, both returned their record, and the
\* two records together are larger than A's totalStorage
C25_Witness ==
  /\ procs["s1"].op = "uploadFile" /\ procs["s1"].pc = "done"
  /\ procs["s2"].op = "uploadFile" /\ procs["s2"].pc = "done"
  /\ procs["s1"].ret.status = "ok" /\ procs["s2"].ret.status = "ok"
  /\ DOMAIN files = {procs["s1"].fid, procs["s2"].fid}
  /\ Cardinality(DOMAIN files) = 2
  /\ \A f \in DOMAIN files : files[f].userId = "A"
  /\ files[1].size + files[2].size > users["A"].totalStorage

\* the record f as uploadFile stored it, before any link was generated
AsUploaded(f) ==
  [NewFileData(files[f].userId, files[f].size, files[f].publicId, NoOptions)
     EXCEPT !.uploadedAt = files[f].uploadedAt]

\* C26: of two generateShareableLink calls that both read the record before
\* either wrote, the one that commits second leaves the record it alone
\* would have produced from the record it read.
C26_LastWriteWins ==
  [][\A p \in Procs :
       (/\ GenUpdateDoc(p)
        /\ procs[p].fid \in DOMAIN files
        /\ files[procs[p].fid].isPublic) =>
         files'[procs[p].fid] = ApplyUpdate(AsUploaded(procs[p].fid), procs[p].updateData)]_vars

\* C27: two digests returned by hashPassword are equal exactly when the
\* plaintexts hashed are equal (the same plaintext always gives the same
\* digest, a different plaintext a different one).
C27_HashRoundTrip ==
  \A p, q \in Procs :
    (ReturnedBy(p, "hashPassword") /\ ReturnedBy(q, "hashPassword")) =>
      ((procs[p].ret.files = procs[q].ret.files)
         <=> (procs[p].options.password = procs[q].options.password))

\* C28: in a batch upload the failure of one file's upload changes nothing
\* of its sibling (the sibling's call goes on as it was and no record or
\* ledger entry is taken back), the batch completes normally, and what the
\* caller is handed has one result per file of the batch.
C28_BatchOneResultPerFile ==
  [][/\ \A p \in Procs :
          UploadFails(p) =>
            /\ \A q \in Procs \ {p} : procs'[q] = procs[q]
            /\ UNCHANGED <<users, files>>
     /\ HandleUploadDone =>
          /\ procs'["s1"].ret.status = "ok"
          /\ procs'["s1"].ret.n = Cardinality(Procs)]_vars

\* an upload or a delete on behalf of user u has started and not returned
InProgressFor(u) ==
  \E p \in Procs :
    /\ procs[p].pc \notin {"idle", "done"}
    /\ \/ procs[p].op = "uploadFile" /\ procs[p].uid = u
       \/ \E f \in DOMAIN procs[p].sub : procs[p].sub[f].userId = u

\* C29: for every user U, whenever no upload or delete is in progress for U,
\* usedStorage(U) is the sum of the sizes of the records U owns.
C29_LedgerMatchesRecords ==
  \A u \in Users :
    ~InProgressFor(u) => users[u].usedStorage = SizeOf(u, DOMAIN files)

\* C30: an uploadFile call that has reported failure has left no record of
\* its own behind, also when the failure came from the ledger update that
\* follows addDoc.
C30_UploadAllOrNothing ==
  \A p \in Procs :
    (ReturnedBy(p, "uploadFile") /\ procs[p].ret.status # "ok") =>
      procs[p].fid \notin DOMAIN files

\* C31: the size of a file is released at most once: when a delete of file f
\* writes the ledger, the bytes of f were still counted, so what it leaves
\* covers at least the other records of the user.
C31_ReleaseAppliedOnce ==
  [][\A p \in Procs : \A f \in DOMAIN procs[p].sub :
       DelStorageWrite(p, f) =>
         users'[Task(p, f).userId].usedStorage >=
           SizeOf(Task(p, f).userId, DOMAIN files \ {f})]_vars

\* C32: a sweep removes a record only if the record is public and expired at
\* the moment it is removed.
C32_SweepDeletesOnlyStillExpired ==
  [][\A p \in Procs : \A f \in DOMAIN procs[p].sub :
       (Sweeping(p) /\ DelDeleteDoc(p, f) /\ f \in DOMAIN files) =>
         ExpiredPublic(f)]_vars

\* the record f is hidden from its owner's list because its expiresAt has
\* passed
HiddenExpired(f) ==
  /\ f \in DOMAIN files
  /\ ~KeptInList(files[f], now)
  /\ The(files[f].expiresAt) < now

\* C33: with the sweep invoked again and again, every record that
\* getUserFiles hides because its expiresAt has passed is eventually deleted
\* (or shown again because its owner renewed it), public or not.
C33_HiddenEventuallyDeleted ==
  \A f \in FileIds :
    HiddenExpired(f) ~> (f \notin DOMAIN files \/ ~HiddenExpired(f))

\* C34: the expiration a generateShareableLink call is about to write is
\* after the time of the call, and with expiresIn = 0 the call writes no
\* expiration at all.
C34_LinkExpirationInFuture ==
  [][\A p \in Procs :
       (IsIdle(p) /\ procs'[p].pc = "updateDoc") =>
         \A f \in DOMAIN files : \A o \in HoursLinkOptions :
           GenerateShareableLink(p, f, files[f].userId, o) =>
             /\ (o.expiresIn = Num(0)) =>
                  procs'[p].updateData.expiresAt = Undefined
             /\ (procs'[p].updateData.expiresAt.kind = "number") =>
                  procs'[p].updateData.expiresAt.n > now]_vars

\* the record f existed and has been removed (its id was handed out and no
\* upload is about to store it)
Removed(f) ==
  /\ f < nextId
  /\ f \notin DOMAIN files
  /\ \A p \in Procs : ~(At(p, "uploadFile", "addDoc") /\ procs[p].fid = f)

\* C35: a removed record never comes back, and the write of a
\* generateShareableLink or shareFile call whose record was removed after the
\* call read it fails with not-found and changes no record.
C35_DeletedNeverBroughtBack ==
  [][/\ \A f \in FileIds : Removed(f) => f \notin DOMAIN files'
     /\ \A p \in Procs :
          (/\ procs[p].pc = "updateDoc"
           /\ procs[p].fid \notin DOMAIN files
           /\ GenUpdateDoc(p) \/ ShareUpdateDoc(p)) =>
            /\ procs'[p].ret.status = "not-found"
            /\ files' = files]_vars

\* a link call read record 1, a delete in the other session removed it, and
\* the link call's write failed: the record is still gone
C35_Witness ==
  /\ procs["s1"] = Done("generateShareableLink", 1, Ret("not-found"))
  /\ procs["s2"] = Done("deleteFile", 1, Ret("ok"))
  /\ 1 \notin DOMAIN files
  /\ nextId > 1

\* C36: in every reachable state, whatever uploads and deletes of the user
\* interleave, usedStorage <= totalStorage; and every value a call is about
\* to write to the ledger is within totalStorage.
C36_UsedStorageWithinQuota ==
  /\ \A u \in Users : users[u].usedStorage <= users[u].totalStorage
  /\ \A p \in Procs :
       At(p, "uploadFile", "storageWrite") =>
         procs[p].newUsed <= users[procs[p].uid].totalStorage

\* two uploads of A raced past the quota check; the ledger update of one of
\* them was refused, so the records exceed the quota and the ledger does not
C36_Witness ==
  /\ \E p \in Procs :
       /\ procs[p].op = "uploadFile" /\ procs[p].pc = "done"
       /\ procs[p].ret.status = "Storage quota exceeded"
       /\ procs[p].fid \in DOMAIN files
  /\ SizeOf("A", DOMAIN files) > users["A"].totalStorage
  /\ users["A"].usedStorage <= users["A"].totalStorage
  /\ users["A"].usedStorage > 0

\* C37: verifyFilePassword always returns a boolean, never an error; it
\* returns false when the file id has no record and when its read of the
\* document store fails, and a true result is never recorded for an id
\* without a record.
C37_VerifyMissingIsFalse ==
  [][\A p \in Procs :
       (IsIdle(p) /\ procs'[p].op = "verifyFilePassword") =>
         /\ procs'[p].ret.status \in {"true", "false"}
         /\ (procs'[p].fid \notin DOMAIN files) => procs'[p].ret.status = "false"
         /\ (faults' # faults) => procs'[p].ret.status = "false"
         /\ (procs'[p].ret.status = "false") => verified' = verified]_vars

\* the viewer asked for an id that has no record while a record exists, and
\* got false; a read has failed before
C37_Witness ==
  /\ procs["s2"].op = "verifyFilePassword" /\ procs["s2"].pc = "done"
  /\ procs["s2"].fid \notin DOMAIN files
  /\ procs["s2"].ret.status = "false"
  /\ DOMAIN files # {}
  /\ faults = 1

\* a session starts a sweep, or fails to, in this step
SweepStarted ==
  \E p \in Procs : IsIdle(p) /\ procs'[p].op = "cleanupExpiredFiles"

\* C38: starting the scheduler starts one sweep at once; while the interval
\* is set, the sweeps started are one for the start and one per interval
\* passed since; a sweep that fails leaves the interval set; once the stop
\* function was called no sweep is started; and every sweep started is a
\* run of the scheduler.
C38_OneSweepPerInterval ==
  /\ [](scheduler.intervalId = "set" =>
          /\ scheduler.runs >= 1
          /\ scheduler.runs \in {now - scheduler.startedAt,
                                  now - scheduler.startedAt + 1})
  /\ [][/\ (scheduler.intervalId = "none" /\ scheduler'.intervalId = "set") =>
            SweepStarted /\ scheduler'.runs = 1
        /\ (scheduler.intervalId = "set" /\ now' # now) =>
            scheduler.runs = now - scheduler.startedAt + 1
        /\ SweepStarted <=> scheduler'.runs = scheduler.runs + 1
        /\ (faults' # faults /\ scheduler.intervalId = "set") =>
            scheduler'.intervalId = "set"
        /\ (scheduler.intervalId = "cleared") =>
            ~SweepStarted /\ scheduler' = scheduler]_vars

\* a sweep failed, a later interval still started a sweep, and the scheduler
\* was stopped while that sweep had not been picked up
C38_Witness ==
  /\ scheduler.intervalId = "cleared"
  /\ scheduler.runs = 2
  /\ faults = 1
  /\ \E p \in Procs : procs[p] = Done("cleanupExpiredFiles", 0, Count(0))
  /\ now > scheduler.startedAt

\* C39: whenever the file list opens the download reference of a file whose
\* record is password-protected for a viewer who is not the record's owner,
\* verifyFilePassword for that file has just returned true; a false result
\* opens nothing, and no verification is started with a blank password.
C39_OpenedOnlyAfterVerify ==
  [][/\ \A f \in DOMAIN files :
         ( /\ <<fileList.user, f>> \in fileList'.opened \ fileList.opened
           /\ files[f].isPasswordProtected = Some(TRUE)
           /\ files[f].userId # fileList.user ) =>
         \E p \in Procs : procs[p] = Done("verifyFilePassword", f, Ret("true"))
     /\ \A p \in Procs :
         ( /\ ReturnedBy(p, "verifyFilePassword")
           /\ procs[p].ret.status = "false"
           /\ procs'[p] # procs[p] ) => fileList'.opened = fileList.opened
     /\ \A p \in Procs :
         (IsIdle(p) /\ procs'[p].op = "verifyFilePassword") =>
           Trim(fileList.downloadPassword) # ""]_vars

\* C40: a mounted ExpirationChecker calls onExpired at most once; the timer
\* is cleared in the step in which it fires with the expiration reached, and
\* a cleared timer calls nothing.
C40_OnExpiredAtMostOnce ==
  /\ [](checker.calls <= 1)
  /\ [][/\ (checker.timer = "set" /\ checker'.calls > checker.calls) =>
            checker'.timer = "cleared"
        /\ (checker.timer \in {"cleared", "unmounted"}) =>
            checker'.calls = checker.calls]_vars

====
